---- MODULE Spec2Model ----
(***************************************************************************)
(* Multi-scale RGB-D odometry driver of                                    *)
(* cpp/open3d/t/pipelines/odometry/RGBDOdometry.cpp.                       *)
(*                                                                         *)
(* One call of RGBDOdometryMultiScale is a small state machine: the entry  *)
(* (device check, clones, depth clipping, dispatch), one step per pyramid  *)
(* loop iteration, one step per ComputePose iteration, the return.  Up to  *)
(* two calls run side by side on the same caller tensors.  Tensors have    *)
(* reference semantics (a handle into heap); Clone makes a new blob.       *)
(***************************************************************************)
EXTENDS Integers, Sequences, FiniteSets, TLC

\* ------------------------------------------------------------------ bounds
MaxLevels == 3
MaxIter == 2
MaxTotalIter == 3
MaxDim == 4
ConcLevels == 2
MaxVec == 2
MaxRange == 5
MinRange == 2

Calls == {1, 2}

\* ------------------------------------------------------------ plain values
Devices == {"CPU:0", "CUDA:0"}
host == "CPU:0"
Methods == {"PointToPlane", "Intensity", "Hybrid", "Unknown"}
NAN == "NaN"
None == [kind |-> "none"]
NoTensor == [dtype |-> "none", dev |-> "none", val |-> <<>>]

\* A double that is a dyadic rational: num / 2^exp, exp >= 0.
Dy(n, e) == [num |-> n, exp |-> e]

RECURSIVE Pow2(_)
Pow2(k) == IF k = 0 THEN 1 ELSE 2 * Pow2(k - 1)

\* x / 2 in IEEE double arithmetic (exact: only the exponent changes).
Half(x) ==
    IF x.num = 0 THEN x
    ELSE IF x.exp = 0 /\ x.num % 2 = 0 THEN Dy(x.num \div 2, 0)
    ELSE Dy(x.num, x.exp + 1)

\* x = y * 2^k as numbers.
DyEqScaled(x, y, k) == x.num * Pow2(y.exp) = y.num * Pow2(k) * Pow2(x.exp)

\* -------------------------------------------------------------- matrices
Dim4 == 1..4
Dim3 == 1..3

Dot4(A, B, r, c) ==
    A[r][1] * B[1][c] + A[r][2] * B[2][c] + A[r][3] * B[3][c] + A[r][4] * B[4][c]

\* Tensor::Matmul on 4x4 values.
Row4(A, B, r) == <<Dot4(A, B, r, 1), Dot4(A, B, r, 2), Dot4(A, B, r, 3), Dot4(A, B, r, 4)>>
Matmul(A, B) == <<Row4(A, B, 1), Row4(A, B, 2), Row4(A, B, 3), Row4(A, B, 4)>>

Eye4 == << <<1, 0, 0, 0>>, <<0, 1, 0, 0>>, <<0, 0, 1, 0>>, <<0, 0, 0, 1>> >>

\* Rigid transforms a pose kernel can return (PoseToTransformation of an se3
\* delta): a quarter turn about z plus a shift, a quarter turn about x plus a
\* shift.  They do not commute.
DeltaA == << <<0, -1, 0, 1>>, <<1, 0, 0, 0>>, <<0, 0, 1, 0>>, <<0, 0, 0, 1>> >>
DeltaB == << <<1, 0, 0, 0>>, <<0, 0, -1, 2>>, <<0, 1, 0, 0>>, <<0, 0, 0, 1>> >>
Deltas == {DeltaA, DeltaB}

\* The se(3) increments a pose kernel can hand back: a quarter turn about an
\* axis with a shift, or a vector with a non-finite entry.
Se3A == [axis |-> "z", t |-> <<1, 0, 0>>]
Se3B == [axis |-> "x", t |-> <<0, 2, 0>>]
Se3NonFinite == [axis |-> "nan", t |-> <<0, 0, 0>>]
Se3Deltas == {Se3A, Se3B, Se3NonFinite}
IsFinite(se3) == se3.axis # "nan"

Rotation(axis) ==
    IF axis = "z"
    THEN << <<0, -1, 0>>, <<1, 0, 0>>, <<0, 0, 1>> >>
    ELSE << <<1, 0, 0>>, <<0, 0, -1>>, <<0, 1, 0>> >>
Rigid(R, t) ==
    << <<R[1][1], R[1][2], R[1][3], t[1]>>,
       <<R[2][1], R[2][2], R[2][3], t[2]>>,
       <<R[3][1], R[3][2], R[3][3], t[3]>>,
       <<0, 0, 0, 1>> >>

\* The caller's initial source-to-target estimates.
InitA == << <<0, 0, 1, 0>>, <<0, 1, 0, 3>>, <<-1, 0, 0, 0>>, <<0, 0, 0, 1>> >>
InitTransforms == {InitA}

\* The caller's camera matrix: fx, fy, cx, cy and the homogeneous 1.
CallerK ==
    << <<Dy(5, 0), Dy(0, 0), Dy(3, 0)>>,
       <<Dy(0, 0), Dy(6, 0), Dy(7, 1)>>,
       <<Dy(0, 0), Dy(0, 0), Dy(1, 0)>> >>

\* ---------------------------------------------------------------- images
\* Where an image's pixels live: <<kind, call, frame, downsamplings>>; call 0
\* is the caller.
CallerBlob(kind, frame) == <<kind, 0, frame, 0>>

\* A depth image: shape, dtype, device, how often it was downsampled, the
\* (threshold, fill) of the downsampling that produced it, the parameters it
\* was clipped with, and the grid that holds its pixels.
DepthImage(frame, rows, cols, channels, dtype, dev) ==
    [kind |-> "depth", frame |-> frame, rows |-> rows, cols |-> cols,
     channels |-> channels, dtype |-> dtype, dev |-> dev, downs |-> 0,
     clipped |-> FALSE, thr |-> 0, fill |-> "none", clip |-> <<>>,
     blob |-> CallerBlob("depth", frame)]

ColorImage(frame, rows, cols, dev) ==
    [kind |-> "color", frame |-> frame, rows |-> rows, cols |-> cols,
     channels |-> 3, dtype |-> "Float32", dev |-> dev, downs |-> 0,
     blob |-> CallerBlob("color", frame)]

\* utility::LogError: a fatal error; the exception value that unwinds the call.
LogError(msg) == [kind |-> "error", msg |-> msg]
IsError(x) == "kind" \in DOMAIN x /\ x.kind = "error"

\* Image::ClipTransform (Frame Preprocessing): a one-channel Float32 depth grid
\* is required; the result is a new clipped grid in metric units.
ClipTransform(img, scale, min_value, max_value, clip_fill) ==
    IF img.channels # 1 \/ img.dtype # "Float32"
    THEN LogError("Invalid depth image")
    ELSE [img EXCEPT !.clipped = TRUE, !.fill = clip_fill,
                     !.clip = <<scale, min_value, max_value, clip_fill>>]

\* core::Tensor::Empty in PyrDownDepth: dst_tensor is a grid of its own.
EmptyOverSrc(src) == src.blob
Empty(src) == <<"pyr", src.blob[2], src.blob[3], src.downs + 1>>

\* PyrDownDepth: the two checks, then a (rows/2, cols/2, 1) image in dst_tensor.
PyrDownDepth(src, diff_threshold, invalid_fill) ==
    IF src.rows <= 0 \/ src.cols <= 0 \/ src.channels # 1
    THEN LogError("Invalid shape")
    ELSE IF src.dtype # "Float32"
    THEN LogError("Expected a Float32 image")
    ELSE [src EXCEPT !.rows = src.rows \div 2, !.cols = src.cols \div 2,
                     !.channels = 1, !.downs = src.downs + 1,
                     !.thr = diff_threshold, !.fill = invalid_fill,
                     !.blob = Empty(src)]

\* Image::CreateVertexMap / CreateNormalMap / RGBToGray / PyrDown / FilterSobel:
\* the derived grid keeps the resolution (PyrDown halves it) and remembers
\* what it was made from.
CreateVertexMap(depth, intrinsics, invalid_fill) ==
    [kind |-> "vertex", frame |-> depth.frame, rows |-> depth.rows,
     cols |-> depth.cols, downs |-> depth.downs, intr |-> intrinsics,
     fill |-> invalid_fill]
CreateNormalMap(vertex, invalid_fill) ==
    [vertex EXCEPT !.kind = "normal", !.fill = invalid_fill]
RGBToGray(color) ==
    [kind |-> "intensity", frame |-> color.frame, rows |-> color.rows,
     cols |-> color.cols, downs |-> color.downs, dtype |-> "Float32"]
PyrDown(img) ==
    [img EXCEPT !.rows = img.rows \div 2, !.cols = img.cols \div 2,
                !.downs = img.downs + 1]
FilterSobel(img) ==
    [first |-> [kind |-> "dx", of |-> img.kind, frame |-> img.frame,
                rows |-> img.rows, cols |-> img.cols, downs |-> img.downs],
     second |-> [kind |-> "dy", of |-> img.kind, frame |-> img.frame,
                 rows |-> img.rows, cols |-> img.cols, downs |-> img.downs]]
\* Image::AsTensor().Clone() of a depth or intensity image: the level's copy.
AsTensor(img) ==
    [kind |-> img.kind, frame |-> img.frame, rows |-> img.rows,
     cols |-> img.cols, downs |-> img.downs]

\* --------------------------------------------------------------- tensors
Tensor(dtype, dev, val) == [dtype |-> dtype, dev |-> dev, val |-> val]

\* Tensor::To(host, Float64): the same tensor when nothing changes, else a
\* converted copy (widening keeps every value).
ToAliases(t) == t.dtype = "Float64" /\ t.dev = host
ToHostFloat64(t) == Tensor("Float64", host, t.val)
To(h, t, tmp) == IF ToAliases(t) THEN h ELSE tmp

\* Tensor::Clone: the handle the clone is bound to is a fresh blob.
CloneShallow(h, fresh) == h
Clone(h, fresh) == fresh

\* intrinsics /= 2; intrinsics[-1][-1] = 1;
HalfRow(K, r) == <<Half(K[r][1]), Half(K[r][2]), Half(K[r][3])>>
HalveNoReset(K) == <<HalfRow(K, 1), HalfRow(K, 2), HalfRow(K, 3)>>
HalveAndReset(K) ==
    [HalveNoReset(K) EXCEPT ![3][3] = Dy(1, 0)]

\* trans = delta_source_to_target.Matmul(trans)
ComposeSwapped(delta, trans) == Matmul(trans, delta)
Compose(delta, trans) == Matmul(delta, trans)

\* kernel::PoseToTransformation: the rigid transformation of a finite se(3)
\* increment; a non-finite one is a fatal error.
PoseToTransformation(se3_delta) ==
    IF IsFinite(se3_delta)
    THEN Tensor("Float64", host, Rigid(Rotation(se3_delta.axis), se3_delta.t))
    ELSE LogError("Non-finite pose increment")

\* What kernel::odometry::ComputePose* leaves in se3_delta, or the fatal error
\* of a singular 6x6 system.
KernelResults == Se3Deltas \cup {LogError("Singular linear system")}

\* ComputePosePointToPlane / ComputePoseIntensity / ComputePoseHybrid: the
\* kernel's increment turned into a transformation; an error passes through.
ComputePoseClamped(se3_delta) ==
    IF IsError(se3_delta) \/ ~IsFinite(se3_delta)
    THEN Tensor("Float64", host, Eye4)
    ELSE PoseToTransformation(se3_delta)
ComputePose(se3_delta) ==
    IF IsError(se3_delta) THEN se3_delta ELSE PoseToTransformation(se3_delta)

\* Handles of the tensors the calls touch.
hK == <<"K", 0, 0>>
hT == <<"T", 0, 0>>
Handles ==
    {hK, hT}
    \cup {<<n, c, 0>> : n \in {"KTo", "TTo", "Kd", "Td", "Tr"}, c \in Calls}
    \cup {<<"im", c, j>> : c \in Calls, j \in 0..(MaxLevels - 1)}

NoHandle == <<"none", 0, 0>>

\* The grids of the images: the caller's four, and per call the two clipped
\* depth images and the downsampled ones.
FrameNames == {"source", "target"}
Blobs ==
    {CallerBlob(k, f) : k \in {"depth", "color"}, f \in FrameNames}
    \cup {<<"clip", c, f, 0>> : c \in Calls, f \in FrameNames}
    \cup {<<"pyr", c, f, k>> : c \in Calls, f \in FrameNames, k \in 1..MaxLevels}

\* ----------------------------------------------------------------- state
VARIABLES
    pc,                     \* where each call is
    args,                   \* the arguments of each call
    heap,                   \* tensor blobs by handle
    grid,                   \* image pixels by blob
    intrinsics_d, trans_d,  \* the per-call working tensors (handles)
    source_processed, target_processed,
    n_levels, i, iter,
    source_depth_curr, target_depth_curr,
    source_intensity_curr, target_intensity_curr,
    lv,                     \* the per-level arrays, lv[c][j].<array name>
    result, err,
    poseLog,                \* the ComputePose calls made, in order
    opCount                 \* image operations performed so far

OdometryVars == <<pc, args, heap, grid, intrinsics_d, trans_d, source_processed,
          target_processed, n_levels, i, iter, source_depth_curr,
          target_depth_curr, source_intensity_curr, target_intensity_curr,
          lv, result, err, poseLog, opCount>>

\* The demo window (ExampleWindow) and its two threads.
VARIABLES
    cfg,                    \* the configuration file's entries, in file order
    wpc,                    \* where the constructing (main) thread is
    upc,                    \* where the update thread is
    voxel_sizes_, search_radius_,
    max_iterations, relative_fitness, relative_rmse,
    criterias_, estimation_,
    filenames_, pointclouds_device_,
    registrations,          \* RegistrationMultiScaleICP runs so far
    pcd_,                   \* the shared cloud, and whether a write is under way
    loop_i,                 \* UpdateMain's loop index i
    scope,                  \* which of UpdateMain's locals are alive
    queue,                  \* callbacks posted to the main thread, not yet run
    cb,                     \* the callback the main thread is running
    shown                   \* what the finished callbacks put on the scene

DemoVars == <<cfg, wpc, upc, voxel_sizes_, search_radius_, max_iterations,
              relative_fitness, relative_rmse, criterias_, estimation_,
              filenames_, pointclouds_device_, registrations, pcd_, loop_i,
              scope, queue, cb, shown>>

vars == <<OdometryVars, DemoVars>>

OpNames == {"ClipTransform", "CreateVertexMap", "CreateNormalMap",
            "PyrDownDepth", "RGBToGray", "PyrDown", "FilterSobel",
            "ComputePose"}
NoOps == [o \in OpNames |-> 0]
Count(cnt, o, k) == [cnt EXCEPT ![o] = @ + k]

Set(f, c, v) == [f EXCEPT ![c] = v]

EmptyLevel ==
    [source_vertex_maps |-> None, target_vertex_maps |-> None,
     target_normal_maps |-> None, source_depth |-> None,
     target_depth |-> None, source_intensity |-> None,
     target_intensity |-> None, target_intensity_dx |-> None,
     target_intensity_dy |-> None, target_depth_dx |-> None,
     target_depth_dy |-> None, intrinsic_matrices |-> NoHandle,
     built |-> 0]

\* ---------------------------------------------------------------- inputs
RECURSIVE SumPos(_)
SumPos(s) ==
    IF s = <<>> THEN 0
    ELSE (IF Head(s) > 0 THEN Head(s) ELSE 0) + SumPos(Tail(s))

IterValues == (-1)..MaxIter
Schedules ==
    {s \in UNION {[1..n -> IterValues] : n \in 0..MaxLevels} :
        SumPos(s) <= MaxTotalIter}

Shapes == {<<MaxDim, MaxDim>>, <<1, MaxDim>>}
\* (source, target) depth formats: channels and dtype of each.
GoodFormat == <<1, "Float32">>
FormatPairs ==
    {<<GoodFormat, GoodFormat>>, <<<<3, "Float32">>, GoodFormat>>,
     <<GoodFormat, <<1, "UInt16">>>>, <<<<1, "Float64">>, <<3, "Float32">>>>}
TensorDtypes == {"Float32", "Float64"}

Frame(name, shape, format, dev) ==
    [color |-> ColorImage(name, shape[1], shape[2], dev),
     depth |-> DepthImage(name, shape[1], shape[2], format[1], format[2], dev)]

\* An RGBDImage whose color_ is an empty image.
DepthOnly(frame) == [frame EXCEPT !.color.rows = 0, !.color.cols = 0]

ColouredInputs ==
    {[source |-> Frame("source", sh, fp[1], sd),
      target |-> Frame("target", sh, fp[2], td),
      intrinsics |-> hK, init_source_to_target |-> hT,
      depth_scale |-> 1000, depth_max |-> 3, depth_diff |-> 7,
      iterations |-> it, method |-> m] :
        sh \in Shapes, fp \in FormatPairs, sd \in Devices, td \in Devices,
        it \in Schedules, m \in Methods}

\* Depth-only frames are given to the geometric method.
DepthOnlyInputs ==
    {[a EXCEPT !.source = DepthOnly(a.source), !.target = DepthOnly(a.target)] :
        a \in {b \in ColouredInputs :
                  /\ b.method = "PointToPlane"
                  /\ b.source.depth.dev = host /\ b.target.depth.dev = host
                  /\ b.source.depth.dtype = "Float32"
                  /\ b.source.depth.channels = 1
                  /\ b.target.depth.dtype = "Float32"
                  /\ b.target.depth.channels = 1}}

Inputs == ColouredInputs \cup DepthOnlyInputs

IdleInput == CHOOSE a \in Inputs : TRUE

InitCommon ==
    /\ intrinsics_d = [c \in Calls |-> NoHandle]
    /\ trans_d = [c \in Calls |-> NoHandle]
    /\ source_processed = [c \in Calls |-> None]
    /\ target_processed = [c \in Calls |-> None]
    /\ n_levels = [c \in Calls |-> 0]
    /\ i = [c \in Calls |-> 0]
    /\ iter = [c \in Calls |-> 0]
    /\ source_depth_curr = [c \in Calls |-> None]
    /\ target_depth_curr = [c \in Calls |-> None]
    /\ source_intensity_curr = [c \in Calls |-> None]
    /\ target_intensity_curr = [c \in Calls |-> None]
    /\ lv = [c \in Calls |-> <<>>]
    /\ result = [c \in Calls |-> NoTensor]
    /\ err = [c \in Calls |-> "none"]
    /\ poseLog = [c \in Calls |-> <<>>]
    /\ opCount = [c \in Calls |-> NoOps]

InitHeap(dt, T0) ==
    heap = [h \in Handles |->
              IF h = hK THEN Tensor(dt, host, CallerK)
              ELSE IF h = hT THEN Tensor(dt, host, T0)
              ELSE NoTensor]

\* The caller's images as the call finds them.
InitGrid(a) ==
    grid = [b \in Blobs |->
              IF b = CallerBlob("depth", "source") THEN a.source.depth
              ELSE IF b = CallerBlob("depth", "target") THEN a.target.depth
              ELSE IF b = CallerBlob("color", "source") THEN a.source.color
              ELSE IF b = CallerBlob("color", "target") THEN a.target.color
              ELSE None]

\* ----------------------------------------------------- the demo's inputs
\* The entries of one name in the configuration file, in file order.
Vec(name, n) == [k \in 1..n |-> <<name, k>>]

RegistrationMethods == {"PointToPoint", "PointToPlane", "Other"}

Configs ==
    {[voxel_size |-> Vec("voxel_size", nv),
      search_radii |-> Vec("search_radii", ns),
      max_iterations |-> Vec("max_iterations", nm),
      relative_fitness |-> Vec("relative_fitness", nf),
      relative_rmse |-> Vec("relative_rmse", nr),
      registration_method |-> m, end_range |-> e] :
        nv \in 0..MaxVec, ns \in 0..MaxVec, nm \in 0..MaxVec,
        nf \in 0..MaxVec, nr \in 0..MaxVec,
        m \in RegistrationMethods, e \in MinRange..MaxRange}

NoCallback == [posted |-> -2]
NoCloud == [cloud |-> <<"none", 0>>, writing |-> FALSE]

\* The window's fields before its constructor body runs.
InitWindow(config, where) ==
    /\ cfg = config
    /\ wpc = where
    /\ upc = "idle"
    /\ voxel_sizes_ = <<>>
    /\ search_radius_ = <<>>
    /\ max_iterations = <<>>
    /\ relative_fitness = <<>>
    /\ relative_rmse = <<>>
    /\ criterias_ = <<>>
    /\ estimation_ = "null"
    /\ filenames_ = <<>>
    /\ pointclouds_device_ = <<>>
    /\ registrations = 0
    /\ pcd_ = NoCloud
    /\ loop_i = 0
    /\ scope = [i |-> FALSE, locals |-> FALSE]
    /\ queue = <<>>
    /\ cb = NoCallback
    /\ shown = <<>>

NoWindow == InitWindow(CHOOSE config \in Configs : TRUE, "none")

\* One call; the second stays idle.  The caller's tensors are Float64, or
\* Float32 with a schedule that spends no iteration.
Init ==
    /\ pc = [c \in Calls |-> IF c = 1 THEN "start" ELSE "idle"]
    /\ \E a \in Inputs :
          /\ args = [c \in Calls |-> IF c = 1 THEN a ELSE IdleInput]
          /\ InitGrid(a)
          /\ \E dt \in TensorDtypes, T0 \in InitTransforms :
                /\ dt = "Float32" => SumPos(a.iterations) = 0
                /\ InitHeap(dt, T0)
    /\ InitCommon
    /\ NoWindow

\* Two calls side by side on the same caller tensors: valid frames, schedules
\* of ConcLevels levels, any pair of methods.
ConcSchedules ==
    {s \in Schedules : Len(s) = ConcLevels /\ \A k \in 1..Len(s) : s[k] \in 0..1}
ConcInputs(methods) ==
    {a \in Inputs :
        /\ a.method \in methods
        /\ a.iterations \in ConcSchedules
        /\ a.source = Frame("source", <<MaxDim, MaxDim>>, GoodFormat, host)
        /\ a.target = Frame("target", <<MaxDim, MaxDim>>, GoodFormat, host)}

InitConc ==
    /\ pc = [c \in Calls |-> "start"]
    /\ \E a1 \in ConcInputs({"PointToPlane", "Intensity"}),
          a2 \in ConcInputs({"Hybrid", "Unknown"}) :
            /\ args = [c \in Calls |-> IF c = 1 THEN a1 ELSE a2]
            /\ InitGrid(a1)
    /\ \E dt \in TensorDtypes, T0 \in InitTransforms : InitHeap(dt, T0)
    /\ InitCommon
    /\ NoWindow

\* --------------------------------------------------------------- actions
Throw(c, e) ==
    /\ pc' = Set(pc, c, "error")
    /\ err' = Set(err, c, e.msg)

DriverLocals ==
    <<n_levels, i, iter, source_depth_curr, target_depth_curr,
      source_intensity_curr, target_intensity_curr, lv>>

\* lines 104-105: the device check.
DeviceMismatchNever(source, target) == FALSE
DeviceMismatch(source, target) == target.depth.dev # source.depth.dev

\* lines 121-124: both depth images are clipped the same way.
PreprocessSkipped(depth, depth_scale, depth_max) == depth
Preprocess(depth, depth_scale, depth_max) ==
    ClipTransform(depth, depth_scale, 0, depth_max, NAN)

\* lines 121, 123: the clipped image is a new local image of the call.
ProcessedImage(c, img) == [img EXCEPT !.blob = <<"clip", c, img.frame, 0>>]

\* lines 94-129: device check, Float64 host clones, depth clipping.
RGBDOdometryMultiScale(c) ==
    /\ pc[c] = "start"
    /\ LET a == args[c]
           kTo == To(a.intrinsics, heap[a.intrinsics], <<"KTo", c, 0>>)
           tTo == To(a.init_source_to_target, heap[a.init_source_to_target],
                     <<"TTo", c, 0>>)
           heapTo == [h \in Handles |->
                        IF h = kTo /\ h # a.intrinsics
                        THEN ToHostFloat64(heap[a.intrinsics])
                        ELSE IF h = tTo /\ h # a.init_source_to_target
                        THEN ToHostFloat64(heap[a.init_source_to_target])
                        ELSE heap[h]]
           heapClone == [heapTo EXCEPT ![<<"Kd", c, 0>>] = heapTo[kTo],
                                       ![<<"Td", c, 0>>] = heapTo[tTo]]
           sdp == Preprocess(a.source.depth, a.depth_scale, a.depth_max)
           tdp == Preprocess(a.target.depth, a.depth_scale, a.depth_max)
           source_depth_processed == ProcessedImage(c, sdp)
           target_depth_processed == ProcessedImage(c, tdp)
       IN  IF DeviceMismatch(a.source, a.target)
           THEN /\ Throw(c, LogError("Device mismatch"))
                /\ UNCHANGED <<heap, grid, intrinsics_d, trans_d, source_processed,
                               target_processed, opCount>>
           ELSE /\ heap' = heapClone
                /\ intrinsics_d' = Set(intrinsics_d, c, Clone(kTo, <<"Kd", c, 0>>))
                /\ trans_d' = Set(trans_d, c, Clone(tTo, <<"Td", c, 0>>))
                /\ IF IsError(sdp)
                   THEN /\ Throw(c, sdp)
                        /\ UNCHANGED <<grid, source_processed, target_processed,
                                       opCount>>
                   ELSE IF IsError(tdp)
                   THEN /\ Throw(c, tdp)
                        /\ grid' = [grid EXCEPT ![source_depth_processed.blob] =
                                                   source_depth_processed]
                        /\ opCount' = Set(opCount, c, Count(opCount[c], "ClipTransform", 1))
                        /\ UNCHANGED <<source_processed, target_processed>>
                   ELSE /\ pc' = Set(pc, c, "dispatch")
                        /\ grid' = [grid EXCEPT
                                       ![source_depth_processed.blob] =
                                           source_depth_processed,
                                       ![target_depth_processed.blob] =
                                           target_depth_processed]
                        /\ source_processed' = Set(source_processed, c,
                               [color |-> a.source.color,
                                depth |-> source_depth_processed])
                        /\ target_processed' = Set(target_processed, c,
                               [color |-> a.target.color,
                                depth |-> target_depth_processed])
                        /\ opCount' = Set(opCount, c, Count(opCount[c], "ClipTransform", 2))
                        /\ UNCHANGED err
    /\ UNCHANGED <<args, DriverLocals, result, poseLog, DemoVars>>

\* lines 159-166, 216-235, 295-317: the locals of a driver before its loops.
LevelCountShort(iterations) == IF Len(iterations) > 0 THEN Len(iterations) - 1 ELSE 0
LevelCount(iterations) == Len(iterations)

EnterDriver(c, withIntensity) ==
    LET n == LevelCount(args[c].iterations) IN
    /\ n_levels' = Set(n_levels, c, n)
    /\ lv' = Set(lv, c, [j \in 0..(n - 1) |-> EmptyLevel])
    /\ source_depth_curr' = Set(source_depth_curr, c, source_processed[c].depth)
    /\ target_depth_curr' = Set(target_depth_curr, c, target_processed[c].depth)
    /\ IF withIntensity
       THEN /\ source_intensity_curr' =
                   Set(source_intensity_curr, c, RGBToGray(source_processed[c].color))
            /\ target_intensity_curr' =
                   Set(target_intensity_curr, c, RGBToGray(target_processed[c].color))
            /\ opCount' = Set(opCount, c, Count(opCount[c], "RGBToGray", 2))
       ELSE UNCHANGED <<source_intensity_curr, target_intensity_curr, opCount>>
    /\ i' = Set(i, c, 0)
    /\ iter' = Set(iter, c, 0)
    /\ pc' = Set(pc, c, IF n > 0 THEN "pyramid" ELSE "odometry")
    /\ UNCHANGED <<args, heap, grid, intrinsics_d, trans_d, source_processed,
                   target_processed, result, err, poseLog, DemoVars>>

\* lines 131-134, 135-138, 139-142: the dispatch on the method.
RGBDOdometryMultiScalePointToPlane(c) ==
    /\ pc[c] = "dispatch"
    /\ args[c].method = "PointToPlane"
    /\ EnterDriver(c, FALSE)

RGBDOdometryMultiScaleIntensity(c) ==
    /\ pc[c] = "dispatch"
    /\ args[c].method = "Intensity"
    /\ EnterDriver(c, TRUE)

RGBDOdometryMultiScaleHybrid(c) ==
    /\ pc[c] = "dispatch"
    /\ args[c].method = "Hybrid"
    /\ EnterDriver(c, TRUE)

\* lines 143-147: any other method value.
UnknownMethodReturnsInit(trans) == trans
UnknownMethod(trans) == LogError("Odometry method not implemented.")

MethodNotImplemented(c) ==
    /\ pc[c] = "dispatch"
    /\ args[c].method \notin {"PointToPlane", "Intensity", "Hybrid"}
    /\ LET out == UnknownMethod(heap[trans_d[c]]) IN
       IF IsError(out)
       THEN Throw(c, out) /\ UNCHANGED result
       ELSE /\ pc' = Set(pc, c, "done")
            /\ result' = Set(result, c, out)
            /\ UNCHANGED err
    /\ UNCHANGED <<args, heap, grid, intrinsics_d, trans_d, source_processed,
                   target_processed, DriverLocals, poseLog, opCount, DemoVars>>

\* lines 177-181: where the data built at loop step k is stored.
StoreIndexForward(n, k) == k
StoreIndex(n, k) == n - 1 - k

\* lines 185, 187, 261, 263, 347, 349: the threshold handed to PyrDownDepth.
DownsampleThresholdUnscaled(depth_diff) == depth_diff
DownsampleThreshold(depth_diff) == depth_diff * 2

\* lines 183, 259, 345: whether step k downsamples for a further level.
DownsampleAlways(n, k) == TRUE
DownsampleAgain(n, k) == k # n - 1

AddOps(cnt, made) == [o \in OpNames |-> cnt[o] + made[o]]

\* One iteration of a driver's pyramid loop (lines 169-192, 238-270, 320-356):
\* `level` holds the maps built at this step, `made` the operations they took.
PyramidStep(c, level, made, withIntensity) ==
    LET n == n_levels[c]
        k == i[c]
        idx == StoreIndex(n, k)
        h == intrinsics_d[c]
        fresh == <<"im", c, idx>>
        stored == [level EXCEPT !.intrinsic_matrices = Clone(h, fresh),
                                !.built = lv[c][idx].built + 1]
        heapStored == [heap EXCEPT ![fresh] = heap[h]]
        thr == DownsampleThreshold(args[c].depth_diff)
        sd == PyrDownDepth(source_depth_curr[c], thr, NAN)
        td == PyrDownDepth(target_depth_curr[c], thr, NAN)
    IN
    /\ pc[c] = "pyramid"
    /\ k < n
    /\ IF DownsampleAgain(n, k)
       THEN IF IsError(sd)
            THEN /\ Throw(c, sd)
                 /\ opCount' = Set(opCount, c, AddOps(opCount[c], made))
                 /\ UNCHANGED <<heap, grid, lv, i, source_depth_curr,
                                target_depth_curr, source_intensity_curr,
                                target_intensity_curr>>
            ELSE IF IsError(td)
            THEN /\ Throw(c, td)
                 /\ grid' = [grid EXCEPT ![sd.blob] = sd]
                 /\ opCount' = Set(opCount, c,
                        Count(AddOps(opCount[c], made), "PyrDownDepth", 1))
                 /\ UNCHANGED <<heap, lv, i, source_depth_curr, target_depth_curr,
                                source_intensity_curr, target_intensity_curr>>
            ELSE /\ lv' = [lv EXCEPT ![c][idx] = stored]
                 /\ grid' = [grid EXCEPT ![sd.blob] = sd, ![td.blob] = td]
                 /\ source_depth_curr' = Set(source_depth_curr, c, sd)
                 /\ target_depth_curr' = Set(target_depth_curr, c, td)
                 /\ IF withIntensity
                    THEN /\ source_intensity_curr' =
                              Set(source_intensity_curr, c, PyrDown(source_intensity_curr[c]))
                         /\ target_intensity_curr' =
                              Set(target_intensity_curr, c, PyrDown(target_intensity_curr[c]))
                    ELSE UNCHANGED <<source_intensity_curr, target_intensity_curr>>
                 /\ opCount' = Set(opCount, c,
                        Count(Count(AddOps(opCount[c], made), "PyrDownDepth", 2),
                              "PyrDown", IF withIntensity THEN 2 ELSE 0))
                 /\ heap' = [heapStored EXCEPT
                                ![h] = [@ EXCEPT !.val = HalveAndReset(@)]]
                 /\ i' = Set(i, c, IF k + 1 < n THEN k + 1 ELSE 0)
                 /\ pc' = Set(pc, c, IF k + 1 < n THEN "pyramid" ELSE "odometry")
                 /\ UNCHANGED err
       ELSE /\ lv' = [lv EXCEPT ![c][idx] = stored]
            /\ heap' = heapStored
            /\ opCount' = Set(opCount, c, AddOps(opCount[c], made))
            /\ i' = Set(i, c, IF k + 1 < n THEN k + 1 ELSE 0)
            /\ pc' = Set(pc, c, IF k + 1 < n THEN "pyramid" ELSE "odometry")
            /\ UNCHANGED <<err, grid, source_depth_curr, target_depth_curr,
                           source_intensity_curr, target_intensity_curr>>
    /\ UNCHANGED <<args, intrinsics_d, trans_d, source_processed,
                   target_processed, n_levels, iter, result, poseLog, DemoVars>>

\* lines 169-192
PyramidPointToPlane(c) ==
    /\ args[c].method = "PointToPlane"
    /\ pc[c] = "pyramid"
    /\ LET K == heap[intrinsics_d[c]].val
           source_vertex_map == CreateVertexMap(source_depth_curr[c], K, NAN)
           target_vertex_map == CreateVertexMap(target_depth_curr[c], K, NAN)
           target_normal_map == CreateNormalMap(target_vertex_map, NAN)
       IN PyramidStep(c,
              [EmptyLevel EXCEPT !.source_vertex_maps = source_vertex_map,
                                 !.target_vertex_maps = target_vertex_map,
                                 !.target_normal_maps = target_normal_map],
              [NoOps EXCEPT !["CreateVertexMap"] = 2, !["CreateNormalMap"] = 1],
              FALSE)

\* lines 238-270
PyramidIntensity(c) ==
    /\ args[c].method = "Intensity"
    /\ pc[c] = "pyramid"
    /\ LET K == heap[intrinsics_d[c]].val
           source_vertex_map == CreateVertexMap(source_depth_curr[c], K, NAN)
           target_intensity_grad == FilterSobel(target_intensity_curr[c])
       IN PyramidStep(c,
              [EmptyLevel EXCEPT
                  !.source_depth = AsTensor(source_depth_curr[c]),
                  !.target_depth = AsTensor(target_depth_curr[c]),
                  !.source_intensity = AsTensor(source_intensity_curr[c]),
                  !.target_intensity = AsTensor(target_intensity_curr[c]),
                  !.source_vertex_maps = source_vertex_map,
                  !.target_intensity_dx = target_intensity_grad.first,
                  !.target_intensity_dy = target_intensity_grad.second],
              [NoOps EXCEPT !["CreateVertexMap"] = 1, !["FilterSobel"] = 1],
              TRUE)

\* lines 320-356
PyramidHybrid(c) ==
    /\ args[c].method = "Hybrid"
    /\ pc[c] = "pyramid"
    /\ LET K == heap[intrinsics_d[c]].val
           source_vertex_map == CreateVertexMap(source_depth_curr[c], K, NAN)
           target_intensity_grad == FilterSobel(target_intensity_curr[c])
           target_depth_grad == FilterSobel(target_depth_curr[c])
       IN PyramidStep(c,
              [EmptyLevel EXCEPT
                  !.source_depth = AsTensor(source_depth_curr[c]),
                  !.target_depth = AsTensor(target_depth_curr[c]),
                  !.source_intensity = AsTensor(source_intensity_curr[c]),
                  !.target_intensity = AsTensor(target_intensity_curr[c]),
                  !.source_vertex_maps = source_vertex_map,
                  !.target_intensity_dx = target_intensity_grad.first,
                  !.target_intensity_dy = target_intensity_grad.second,
                  !.target_depth_dx = target_depth_grad.first,
                  !.target_depth_dy = target_depth_grad.second],
              [NoOps EXCEPT !["CreateVertexMap"] = 1, !["FilterSobel"] = 2],
              TRUE)

\* lines 195, 274, 360: the inner loop's condition.
IterLeftUntilSmall(iterations, level, it) == it < iterations[level + 1] /\ it < 1
IterLeftAtLeastOnce(iterations, level, it) == it < iterations[level + 1] \/ it = 0
IterLeft(iterations, level, it) == it < iterations[level + 1]

\* lines 198, 279, 365: the transformation a ComputePose call linearizes at.
PoseArgumentRestart(trans, init_source_to_target, it) ==
    IF it = 0 THEN init_source_to_target ELSE trans
PoseArgument(trans, init_source_to_target, it) == trans

\* One pass of the inner loop: ComputePose on level i, then the composition;
\* an error of the kernel or of the conversion ends the call.
OdometryStep(c, kernel) ==
    /\ pc[c] = "odometry"
    /\ i[c] < n_levels[c]
    /\ IterLeft(args[c].iterations, i[c], iter[c])
    /\ \E se3_delta \in KernelResults :
         LET level == lv[c][i[c]]
             trans == heap[trans_d[c]]
             delta_source_to_target == ComputePose(se3_delta)
             call == [kernel |-> kernel, level |-> i[c], data |-> level,
                      intrinsics |-> heap[level.intrinsic_matrices].val,
                      init_source_to_target |->
                          PoseArgument(trans.val, heap[<<"Td", c, 0>>].val, iter[c]),
                      depth_diff |-> args[c].depth_diff,
                      se3 |-> se3_delta,
                      delta |-> IF IsError(delta_source_to_target)
                                THEN delta_source_to_target
                                ELSE delta_source_to_target.val]
         IN /\ poseLog' = Set(poseLog, c, Append(poseLog[c], call))
            /\ IF IsError(delta_source_to_target)
               THEN /\ Throw(c, delta_source_to_target)
                    /\ UNCHANGED <<heap, trans_d, iter>>
               ELSE /\ heap' = [heap EXCEPT ![<<"Tr", c, 0>>] =
                                  Tensor("Float64", host,
                                         Compose(delta_source_to_target.val,
                                                 trans.val))]
                    /\ trans_d' = Set(trans_d, c, <<"Tr", c, 0>>)
                    /\ iter' = Set(iter, c, iter[c] + 1)
                    /\ UNCHANGED <<pc, err>>
    /\ opCount' = Set(opCount, c, Count(opCount[c], "ComputePose", 1))
    /\ UNCHANGED <<args, grid, intrinsics_d, source_processed, target_processed,
                   n_levels, i, source_depth_curr, target_depth_curr,
                   source_intensity_curr, target_intensity_curr, lv, result,
                   DemoVars>>

\* lines 195-201
OdometryPointToPlane(c) ==
    args[c].method = "PointToPlane" /\ OdometryStep(c, "ComputePosePointToPlane")
\* lines 274-281
OdometryIntensityWithHybridKernel(c) ==
    args[c].method = "Intensity" /\ OdometryStep(c, "ComputePoseHybrid")
OdometryIntensity(c) ==
    args[c].method = "Intensity" /\ OdometryStep(c, "ComputePoseIntensity")
\* lines 360-368
OdometryHybrid(c) ==
    args[c].method = "Hybrid" /\ OdometryStep(c, "ComputePoseHybrid")

\* lines 194, 273, 359: the inner loop of level i is over; on to level i + 1.
NextLevel(c) ==
    /\ pc[c] = "odometry"
    /\ i[c] < n_levels[c]
    /\ ~IterLeft(args[c].iterations, i[c], iter[c])
    /\ i' = Set(i, c, i[c] + 1)
    /\ iter' = Set(iter, c, 0)
    /\ UNCHANGED <<pc, args, heap, grid, intrinsics_d, trans_d, source_processed,
                   target_processed, n_levels, source_depth_curr,
                   target_depth_curr, source_intensity_curr,
                   target_intensity_curr, lv, result, err, poseLog, opCount,
                   DemoVars>>

\* lines 204, 284, 370: return trans.
Return(c) ==
    /\ pc[c] = "odometry"
    /\ i[c] = n_levels[c]
    /\ result' = Set(result, c, heap[trans_d[c]])
    /\ pc' = Set(pc, c, "done")
    /\ UNCHANGED <<args, heap, grid, intrinsics_d, trans_d, source_processed,
                   target_processed, DriverLocals, err, poseLog, opCount,
                   DemoVars>>

Next ==
    \E c \in Calls :
        \/ RGBDOdometryMultiScale(c)
        \/ RGBDOdometryMultiScalePointToPlane(c)
        \/ RGBDOdometryMultiScaleIntensity(c)
        \/ RGBDOdometryMultiScaleHybrid(c)
        \/ MethodNotImplemented(c)
        \/ PyramidPointToPlane(c)
        \/ PyramidIntensity(c)
        \/ PyramidHybrid(c)
        \/ OdometryPointToPlane(c)
        \/ OdometryIntensity(c)
        \/ OdometryHybrid(c)
        \/ NextLevel(c)
        \/ Return(c)

Spec == Init /\ [][Next]_vars

SpecConc == InitConc /\ [][Next]_vars

\* ============================================================ the demo
\* v[k] of a std::vector read with operator[] (k counts from 0): past the end
\* the read is undefined, here some stale value.
Stale == <<"stale", 0>>
At(v, k) == IF k + 1 \in DOMAIN v THEN v[k + 1] ELSE Stale

\* lines 303-307: the five vectors must have one length.
LengthMismatchRadiiOnly(voxel, radii, iters, fitness, rmse) ==
    Len(radii) # Len(voxel)
LengthMismatch(voxel, radii, iters, fitness, rmse) ==
    \/ Len(radii) # Len(voxel)
    \/ Len(iters) # Len(voxel)
    \/ Len(fitness) # Len(voxel)
    \/ Len(rmse) # Len(voxel)

\* ICPConvergenceCriteria(relative_fitness, relative_rmse, max_iteration)
ICPConvergenceCriteria(fitness, rmse, iters) ==
    [relative_fitness_ |-> fitness, relative_rmse_ |-> rmse,
     max_iteration_ |-> iters]

WindowFields ==
    <<estimation_, filenames_, pointclouds_device_, registrations, pcd_,
      loop_i, scope, queue, cb, shown, upc>>

\* lines 219-312: the file is read into the vectors, then the length check.
ReadConfigFile ==
    /\ wpc = "ReadConfigFile"
    /\ voxel_sizes_' = cfg.voxel_size
    /\ search_radius_' = cfg.search_radii
    /\ max_iterations' = cfg.max_iterations
    /\ relative_fitness' = cfg.relative_fitness
    /\ relative_rmse' = cfg.relative_rmse
    /\ wpc' = IF LengthMismatch(cfg.voxel_size, cfg.search_radii,
                                cfg.max_iterations, cfg.relative_fitness,
                                cfg.relative_rmse)
              THEN "error" ELSE "criteria"
    /\ UNCHANGED <<cfg, criterias_, WindowFields, OdometryVars>>

\* lines 314-318: one pass of the loop over length = voxel_sizes_.size().
PushCriteria ==
    /\ wpc = "criteria"
    /\ Len(criterias_) < Len(voxel_sizes_)
    /\ LET k == Len(criterias_)
           criteria == ICPConvergenceCriteria(At(relative_fitness, k),
                                              At(relative_rmse, k),
                                              At(max_iterations, k))
       IN criterias_' = Append(criterias_, criteria)
    /\ UNCHANGED <<cfg, wpc, voxel_sizes_, search_radius_, max_iterations,
                   relative_fitness, relative_rmse, WindowFields, OdometryVars>>

\* lines 320-338: the estimation method, or a fatal error for another name.
SelectEstimation ==
    /\ wpc = "criteria"
    /\ Len(criterias_) >= Len(voxel_sizes_)
    /\ IF cfg.registration_method \in {"PointToPoint", "PointToPlane"}
       THEN /\ estimation_' = cfg.registration_method
            /\ wpc' = "LoadTensorPointClouds"
       ELSE /\ wpc' = "error"
            /\ UNCHANGED estimation_
    /\ UNCHANGED <<cfg, voxel_sizes_, search_radius_, max_iterations,
                   relative_fitness, relative_rmse, criterias_, filenames_,
                   pointclouds_device_, registrations, pcd_, loop_i, scope,
                   queue, cb, shown, upc, OdometryVars>>

\* lines 341-407: one file name and one cloud per index below end_range_.
LoadTensorPointClouds ==
    /\ wpc = "LoadTensorPointClouds"
    /\ filenames_' = [k \in 1..cfg.end_range |-> <<"file", k - 1>>]
    /\ pointclouds_device_' = [k \in 1..cfg.end_range |-> <<"cloud", k - 1>>]
    /\ wpc' = "WarmUp"
    /\ UNCHANGED <<cfg, voxel_sizes_, search_radius_, max_iterations,
                   relative_fitness, relative_rmse, criterias_, estimation_,
                   registrations, pcd_, loop_i, scope, queue, cb, shown, upc,
                   OdometryVars>>

\* lines 53-71: the warm-up registration, then the update thread is started
\* and the constructing thread goes on to run the application's main loop.
WarmUp ==
    /\ wpc = "WarmUp"
    /\ registrations' = registrations + 1
    /\ upc' = "UpdateMain"
    /\ wpc' = "Run"
    /\ UNCHANGED <<cfg, voxel_sizes_, search_radius_, max_iterations,
                   relative_fitness, relative_rmse, criterias_, estimation_,
                   filenames_, pointclouds_device_, pcd_, loop_i, scope, queue,
                   cb, shown, OdometryVars>>

ConfigFields ==
    <<cfg, wpc, voxel_sizes_, search_radius_, max_iterations, relative_fitness,
      relative_rmse, criterias_, estimation_, filenames_, pointclouds_device_>>

\* pcd_ = ...: the assignment starts; DeletePointAttr ends the update.
BeginWrite(p) == [p EXCEPT !.writing = TRUE]
EndWrite(p, cloud) == [cloud |-> cloud, writing |-> FALSE]

\* lines 79-114: the locals of UpdateMain; the first write of pcd_ starts.
UpdateMain ==
    /\ upc = "UpdateMain"
    /\ scope' = [scope EXCEPT !.locals = TRUE]
    /\ pcd_' = BeginWrite(pcd_)
    /\ upc' = "FirstCloud"
    /\ UNCHANGED <<ConfigFields, registrations, loop_i, queue, cb, shown,
                   OdometryVars>>

\* lines 114-115: pcd_ holds cloud 0.
FirstCloud ==
    /\ upc = "FirstCloud"
    /\ pcd_' = EndWrite(pcd_, At(pointclouds_device_, 0))
    /\ upc' = "PostFirst"
    /\ UNCHANGED <<ConfigFields, registrations, loop_i, scope, queue, cb, shown,
                   OdometryVars>>

\* A callback as PostToMainThread takes it: the pair it is posted for (-1 for
\* the one before the loop) and whether it reads the loop index.
Callback(posted) == [posted |-> posted]

\* lines 117-137: the first callback is posted; the loop starts with i = 0.
PostFirst ==
    /\ upc = "PostFirst"
    /\ queue' = Append(queue, Callback(-1))
    /\ loop_i' = 0
    /\ scope' = [scope EXCEPT !.i = TRUE]
    /\ upc' = "LoopTest"
    /\ UNCHANGED <<ConfigFields, registrations, pcd_, cb, shown, OdometryVars>>

\* line 155: whether this pair's cloud is shown.
ShowsPair(k, end_range) == k < end_range - 3

\* lines 137-155: the loop test, the registration of pair i, or the loop's end.
LoopTest ==
    /\ upc = "LoopTest"
    /\ IF loop_i < cfg.end_range - 1
       THEN /\ registrations' = registrations + 1
            /\ upc' = IF ShowsPair(loop_i, cfg.end_range)
                      THEN "Transform" ELSE "NextPair"
            /\ UNCHANGED scope
       ELSE /\ scope' = [scope EXCEPT !.i = FALSE]
            /\ upc' = "Summary"
            /\ UNCHANGED registrations
    /\ UNCHANGED <<ConfigFields, pcd_, loop_i, queue, cb, shown, OdometryVars>>

\* line 159: the assignment to pcd_ starts (no lock is taken).
Transform ==
    /\ upc = "Transform"
    /\ pcd_' = BeginWrite(pcd_)
    /\ upc' = "Transformed"
    /\ UNCHANGED <<ConfigFields, registrations, loop_i, scope, queue, cb, shown,
                   OdometryVars>>

\* target.Transform(cumulative_transform).CPU()
TransformedCloud(cloud) == <<"transformed", cloud[2]>>

\* lines 159-163: pcd_ holds the transformed target of pair i, cloud i + 1.
Transformed ==
    /\ upc = "Transformed"
    /\ pcd_' = EndWrite(pcd_, TransformedCloud(At(pointclouds_device_, loop_i + 1)))
    /\ upc' = "Post"
    /\ UNCHANGED <<ConfigFields, registrations, loop_i, scope, queue, cb, shown,
                   OdometryVars>>

\* lines 165-195: the callback of pair i is posted.
Post ==
    /\ upc = "Post"
    /\ queue' = Append(queue, Callback(loop_i))
    /\ upc' = "NextPair"
    /\ UNCHANGED <<ConfigFields, registrations, pcd_, loop_i, scope, cb, shown,
                   OdometryVars>>

\* lines 198-201 and the i++ of line 137.
NextPair ==
    /\ upc = "NextPair"
    /\ loop_i' = loop_i + 1
    /\ upc' = "LoopTest"
    /\ UNCHANGED <<ConfigFields, registrations, pcd_, scope, queue, cb, shown,
                   OdometryVars>>

\* lines 203-215: the summary is printed and UpdateMain returns.
Summary ==
    /\ upc = "Summary"
    /\ scope' = [scope EXCEPT !.locals = FALSE]
    /\ upc' = "Returned"
    /\ UNCHANGED <<ConfigFields, registrations, pcd_, loop_i, queue, cb, shown,
                   OdometryVars>>

\* A read of pcd_ by the main thread: the cloud it holds, or a torn one while
\* the update thread is writing it.
Torn == <<"torn", 0>>
ReadCloud(p) == IF p.writing THEN {p.cloud, Torn} ELSE {p.cloud}

\* A read through the captured reference to i: its value while the loop is
\* alive, anything once the loop is over.
Garbage == -1
ReadIndex(value, alive) == IF alive THEN {value} ELSE {value, Garbage}

\* lines 119-128, 167-183: the main thread takes the oldest callback and runs
\* it up to its first use of pcd_.
RunCallback ==
    /\ wpc = "Run"
    /\ cb = NoCallback
    /\ queue # <<>>
    /\ \E cloud \in ReadCloud(pcd_) :
          cb' = [posted |-> Head(queue).posted, cloud |-> cloud,
                 raced |-> pcd_.writing,
                 alive |-> scope.locals]
    /\ queue' = Tail(queue)
    /\ UNCHANGED <<ConfigFields, upc, registrations, pcd_, loop_i,
                   scope, shown, OdometryVars>>

\* lines 185-194 (124-133 for the first): AddGeometry under filenames_[i]
\* with pcd_ as it is now, then the camera; the callback ends.
FinishCallback ==
    /\ wpc = "Run"
    /\ cb # NoCallback
    /\ \E cloud \in ReadCloud(pcd_),
          k \in (IF cb.posted = -1 THEN {0} ELSE ReadIndex(loop_i, scope.i)) :
          shown' = Append(shown,
                     [posted |-> cb.posted,
                      name |-> At(filenames_, k),
                      updated |-> cb.cloud,
                      added |-> cloud,
                      raced |-> cb.raced \/ pcd_.writing,
                      alive |-> cb.alive /\ scope.locals
                                /\ (cb.posted = -1 \/ scope.i)])
    /\ cb' = NoCallback
    /\ UNCHANGED <<ConfigFields, upc, registrations, pcd_, loop_i,
                   scope, queue, OdometryVars>>

NextDemo ==
    \/ ReadConfigFile
    \/ PushCriteria
    \/ SelectEstimation
    \/ LoadTensorPointClouds
    \/ WarmUp
    \/ UpdateMain
    \/ FirstCloud
    \/ PostFirst
    \/ LoopTest
    \/ Transform
    \/ Transformed
    \/ Post
    \/ NextPair
    \/ Summary
    \/ RunCallback
    \/ FinishCallback

\* The window is constructed on some configuration; no odometry call runs.
InitDemo ==
    /\ \E config \in Configs : InitWindow(config, "ReadConfigFile")
    /\ pc = [c \in Calls |-> "idle"]
    /\ args = [c \in Calls |-> IdleInput]
    /\ InitGrid(IdleInput)
    /\ InitHeap("Float64", InitA)
    /\ InitCommon

SpecDemo == InitDemo /\ [][NextDemo]_vars

\* ============================================================== claims
Active(c) == pc[c] # "idle"
Running(c) == pc[c] \in {"pyramid", "odometry", "done"}
ValidMethods == {"PointToPlane", "Intensity", "Hybrid"}

\* d_k * ... * d_2 * d_1 of the first k logged deltas.
RECURSIVE DeltaProduct(_, _)
DeltaProduct(log, k) ==
    IF k = 0 THEN Eye4 ELSE Matmul(log[k].delta, DeltaProduct(log, k - 1))

\* The number of logged ComputePose calls made on level j.
CallsOnLevel(log, j) == Cardinality({k \in 1..Len(log) : log[k].level = j})

\* C1: in every driver the running transform is always d_k * ... * d_1 * T0 for
\* the deltas d_1..d_k returned so far, so is the returned transform; after two
\* different deltas A then B it is B * A * T0 and not A * B * T0.
C1_PremultiplyOrder ==
    \A c \in Calls :
        LET log == poseLog[c]
            T0 == heap[hT].val
        IN  /\ pc[c] \in {"odometry", "done"} =>
                 heap[trans_d[c]].val = Matmul(DeltaProduct(log, Len(log)), T0)
            /\ pc[c] = "done" =>
                 /\ result[c].val = Matmul(DeltaProduct(log, Len(log)), T0)
                 /\ (Len(log) = 2 /\ log[1].delta # log[2].delta) =>
                      /\ result[c].val = Matmul(Matmul(log[2].delta, log[1].delta), T0)
                      /\ result[c].val # Matmul(Matmul(log[1].delta, log[2].delta), T0)

C1_Witness ==
    \E c \in Calls :
        /\ pc[c] = "done"
        /\ args[c].method = "Hybrid"
        /\ Len(poseLog[c]) = 2
        /\ poseLog[c][1].delta = DeltaA
        /\ poseLog[c][2].delta = DeltaB

\* C2: for a schedule of counts (no negative entry) every level j gets exactly
\* iterations[j] ComputePose calls whatever deltas come back, the total is the
\* sum of the entries, and a transform is returned only once the last level's
\* budget is used up.
NonNegative(s) == \A k \in 1..Len(s) : s[k] >= 0

C2_FixedSchedule ==
    \A c \in Calls :
        LET it == args[c].iterations
            log == poseLog[c]
        IN  NonNegative(it) =>
              /\ pc[c] = "odometry" =>
                   /\ \A j \in 0..(n_levels[c] - 1) :
                        CallsOnLevel(log, j) =
                            IF j < i[c] THEN it[j + 1]
                            ELSE IF j = i[c] THEN iter[c] ELSE 0
                   /\ i[c] < n_levels[c] => iter[c] <= it[i[c] + 1]
              /\ pc[c] = "done" =>
                   /\ \A j \in 0..(Len(it) - 1) : CallsOnLevel(log, j) = it[j + 1]
                   /\ Len(log) = SumPos(it)
                   /\ opCount[c]["ComputePose"] = SumPos(it)
              /\ result[c] # NoTensor => pc[c] = "done"

C2_Witness ==
    \E c \in Calls :
        /\ pc[c] = "done"
        /\ args[c].iterations = <<1, 2>>
        /\ Len(poseLog[c]) = 3
        /\ poseLog[c][2].delta = poseLog[c][3].delta

\* C3: the data built at pyramid step k (downsampled k times) sits at index
\* n_levels-1-k; the ComputePose calls visit the indices in increasing order,
\* each on the data of its index, so the coarsest level comes first, the
\* full-resolution level last, and a level is finished before the next starts.
Filled(level) == level.source_vertex_maps # None

C3_CoarseToFine ==
    \A c \in Calls :
        LET n == n_levels[c]
            log == poseLog[c]
        IN  /\ pc[c] = "pyramid" =>
                 \A j \in 0..(n - 1) :
                    /\ Filled(lv[c][j]) <=> n - 1 - j < i[c]
                    /\ Filled(lv[c][j]) =>
                          lv[c][j].source_vertex_maps.downs = n - 1 - j
            /\ pc[c] \in {"odometry", "done"} =>
                 /\ \A j \in 0..(n - 1) :
                       /\ Filled(lv[c][j])
                       /\ lv[c][j].source_vertex_maps.downs = n - 1 - j
                 /\ n > 0 =>
                       /\ lv[c][n - 1].source_vertex_maps.rows = args[c].source.depth.rows
                       /\ lv[c][n - 1].source_vertex_maps.cols = args[c].source.depth.cols
                 /\ \A k \in 1..Len(log) :
                       /\ log[k].data = lv[c][log[k].level]
                       /\ log[k].data.source_vertex_maps.downs = n - 1 - log[k].level
                       /\ k > 1 => log[k - 1].level <= log[k].level
                 /\ (Len(log) > 0 /\ args[c].iterations[1] > 0) =>
                       /\ log[1].level = 0
                       /\ log[1].data.source_vertex_maps.downs = n - 1

C3_Witness ==
    \E c \in Calls :
        /\ pc[c] = "done"
        /\ n_levels[c] = 3
        /\ Len(poseLog[c]) = 3
        /\ poseLog[c][1].level = 0
        /\ poseLog[c][3].level = 2
        /\ poseLog[c][3].data.source_vertex_maps.downs = 0

\* C4: with source and target depth on different devices the call can only
\* fail with the device error: nothing is clipped, downsampled or mapped, no
\* ComputePose runs, no transform is returned.
C4_DeviceMismatchFailsFirst ==
    \A c \in Calls :
        (Active(c) /\ args[c].source.depth.dev # args[c].target.depth.dev) =>
            /\ pc[c] \in {"start", "error"}
            /\ pc[c] = "error" => err[c] = "Device mismatch"
            /\ pc[c] = "start" => ENABLED RGBDOdometryMultiScale(c)
            /\ opCount[c] = NoOps
            /\ poseLog[c] = <<>>
            /\ lv[c] = <<>>
            /\ result[c] = NoTensor

C4_Witness ==
    \E c \in Calls :
        /\ pc[c] = "error"
        /\ err[c] = "Device mismatch"
        /\ args[c].source.depth.dev = "CUDA:0"
        /\ args[c].target.depth.dev = "CPU:0"

BadFormat(img) == img.channels # 1 \/ img.dtype # "Float32"

\* Some image that is downsampled again on the way to n levels is empty.
EmptyBeforeLast(img, n) ==
    \E k \in 0..(n - 2) : img.rows \div Pow2(k) = 0 \/ img.cols \div Pow2(k) = 0

C6_EmptyLevelIsFatal ==
    \A c \in Calls :
        /\ \A k \in 1..Len(poseLog[c]) :
              /\ poseLog[c][k].data.source_vertex_maps.rows > 0
              /\ poseLog[c][k].data.source_vertex_maps.cols > 0
        /\ pc[c] = "done" =>
              \A j \in DOMAIN lv[c] :
                 /\ lv[c][j].source_vertex_maps.rows > 0
                 /\ lv[c][j].source_vertex_maps.cols > 0

\* C7: a source or target depth image that has not exactly one channel or is
\* not Float32 makes the call fail, for every method and level count, before
\* any vertex map, normal map, downsampling or ComputePose.
C7_DepthFormatFailsFirst ==
    \A c \in Calls :
        (Active(c) /\ (BadFormat(args[c].source.depth) \/ BadFormat(args[c].target.depth))) =>
            /\ pc[c] \in {"start", "error"}
            /\ pc[c] = "error" => err[c] \in {"Device mismatch", "Invalid depth image"}
            /\ opCount[c]["CreateVertexMap"] = 0
            /\ opCount[c]["CreateNormalMap"] = 0
            /\ opCount[c]["PyrDownDepth"] = 0
            /\ opCount[c]["PyrDown"] = 0
            /\ opCount[c]["ComputePose"] = 0
            /\ poseLog[c] = <<>>
            /\ lv[c] = <<>>
            /\ result[c] = NoTensor

C7_Witness ==
    \E c \in Calls :
        /\ pc[c] = "error"
        /\ err[c] = "Invalid depth image"
        /\ Len(args[c].iterations) = 1
        /\ args[c].source.depth.dtype = "Float32"
        /\ args[c].target.depth.dtype = "UInt16"

\* C8: a method that is none of the three makes the call fail: no pyramid
\* level is built, no ComputePose runs, nothing is returned.
C8_UnknownMethodIsFatal ==
    \A c \in Calls :
        (Active(c) /\ args[c].method \notin {"PointToPlane", "Intensity", "Hybrid"}) =>
            /\ pc[c] \in {"start", "dispatch", "error"}
            /\ result[c] = NoTensor
            /\ lv[c] = <<>>
            /\ poseLog[c] = <<>>
            /\ \A o \in OpNames \ {"ClipTransform"} : opCount[c][o] = 0

C8_Witness ==
    \E c \in Calls :
        /\ pc[c] = "error"
        /\ err[c] = "Odometry method not implemented."
        /\ args[c].method = "Unknown"

\* C9: the intrinsics of the level downsampled k times (index n_levels-1-k)
\* are the caller's fx, fy, cx, cy divided by 2^k with entry [2][2] exactly 1;
\* the finest level has the caller's matrix itself; the matrix is halved
\* n_levels-1 times, not once more after the last level.
ScaledIntrinsics(K, k) ==
    /\ \A e \in {<<1, 1>>, <<2, 2>>, <<1, 3>>, <<2, 3>>} :
          DyEqScaled(CallerK[e[1]][e[2]], K[e[1]][e[2]], k)
    /\ K[3][3] = Dy(1, 0)

C9_IntrinsicsPerLevel ==
    \A c \in Calls :
        LET n == n_levels[c] IN
        /\ Running(c) =>
              \A j \in 0..(n - 1) :
                 Filled(lv[c][j]) =>
                    LET K == heap[lv[c][j].intrinsic_matrices].val IN
                    /\ ScaledIntrinsics(K, n - 1 - j)
                    /\ lv[c][j].source_vertex_maps.intr = K
                    /\ j = n - 1 => K = CallerK
        /\ (pc[c] \in {"odometry", "done"} /\ n > 0) =>
              heap[intrinsics_d[c]].val = heap[lv[c][0].intrinsic_matrices].val
        /\ \A k \in 1..Len(poseLog[c]) :
              ScaledIntrinsics(poseLog[c][k].intrinsics, n - 1 - poseLog[c][k].level)

C9_Witness ==
    \E c \in Calls :
        /\ pc[c] = "done"
        /\ n_levels[c] = 3
        /\ heap[lv[c][0].intrinsic_matrices].val[1][1] = Dy(5, 2)
        /\ heap[lv[c][0].intrinsic_matrices].val[2][3] = Dy(7, 3)
        /\ heap[lv[c][0].intrinsic_matrices].val[3][3] = Dy(1, 0)
        /\ Len(poseLog[c]) > 0

\* C10: two interleaved calls on the same intrinsics and initial-transform
\* tensors do not disturb each other: the caller's two tensors keep their
\* values, and each call's per-level intrinsics, running transform and result
\* are those it has when run alone (K / 2^k per level, its own deltas on T0).
C10_NoInterference ==
    /\ heap[hK].val = CallerK
    /\ heap[hT].val = InitA
    /\ heap[hK].dtype = heap[hT].dtype
    /\ \A c \in Calls :
          LET n == n_levels[c]
              log == poseLog[c]
          IN
          /\ intrinsics_d[c] \notin {hK, hT}
          /\ trans_d[c] \notin {hK, hT}
          /\ Running(c) =>
                \A j \in 0..(n - 1) :
                   Filled(lv[c][j]) =>
                      /\ ScaledIntrinsics(heap[lv[c][j].intrinsic_matrices].val, n - 1 - j)
                      /\ lv[c][j].source_vertex_maps.intr =
                            heap[lv[c][j].intrinsic_matrices].val
          /\ \A k \in 1..Len(log) :
                /\ ScaledIntrinsics(log[k].intrinsics, n - 1 - log[k].level)
                /\ log[k].init_source_to_target =
                      Matmul(DeltaProduct(log, k - 1), InitA)
          /\ pc[c] = "done" =>
                result[c] = Tensor("Float64", host,
                                   Matmul(DeltaProduct(log, Len(log)), InitA))

C10_Witness ==
    /\ heap[hK].dtype = "Float64"
    /\ pc[1] = "odometry"
    /\ Len(poseLog[1]) = 1
    /\ pc[2] = "pyramid"
    /\ i[2] = 1
    /\ intrinsics_d[1] # intrinsics_d[2]
    /\ heap[intrinsics_d[1]].val # CallerK
    /\ heap[intrinsics_d[2]].val # CallerK

\* ------------------------------------------------------------ C11 - C18
CallerImages(c) ==
    {args[c].source.depth, args[c].source.color,
     args[c].target.depth, args[c].target.color}
CallerBlobs == {CallerBlob(k, f) : k \in {"depth", "color"}, f \in FrameNames}
Built(c) == pc[c] \in {"pyramid", "odometry", "done"}
Preprocessed(c) == pc[c] \in {"dispatch", "pyramid", "odometry", "done"}
AtLeastZero(x) == IF x > 0 THEN x ELSE 0

\* C11: in every state of a call, failed ones included, the caller's source
\* and target depth and color grids hold what they held at the call; the
\* clipped images and every downsampled image live in grids of their own
\* (the clipped grid still holds the full-resolution clipped image after the
\* downsamplings), and both frames are clipped with (depth_scale, 0,
\* depth_max, NaN).
C11_InputsUntouched ==
    \A c \in Calls :
        Active(c) =>
            /\ \A img \in CallerImages(c) : grid[img.blob] = img
            /\ Preprocessed(c) =>
                  \A p \in {source_processed[c].depth, target_processed[c].depth} :
                     /\ p.blob \notin CallerBlobs
                     /\ grid[p.blob] = p
                     /\ p.downs = 0
                     /\ p.clip = <<args[c].depth_scale, 0, args[c].depth_max, NAN>>
            /\ Built(c) =>
                  \A cur \in {source_depth_curr[c], target_depth_curr[c]} :
                     /\ cur.blob \notin CallerBlobs
                     /\ grid[cur.blob] = cur
                     /\ \A k \in 1..cur.downs :
                           grid[<<"pyr", c, cur.frame, k>>].downs = k

C11_Witness ==
    \E c \in Calls :
        /\ pc[c] = "done"
        /\ n_levels[c] = 3
        /\ source_depth_curr[c].downs = 2
        /\ source_processed[c].depth.clipped
        /\ grid[<<"pyr", c, "target", 2>>] # None
        /\ grid[CallerBlob("depth", "source")] = args[c].source.depth
        /\ ~args[c].source.depth.clipped

BadIncrement(entry) == IsError(entry.se3) \/ ~IsFinite(entry.se3)

\* C12: a ComputePose call whose increment is non-finite, or whose system is
\* singular, is the last one of its call: the call has failed with that
\* error, the running transform is the one the failing call was given, and
\* nothing is returned.
C12_NonFiniteIsFatal ==
    \A c \in Calls :
        \A k \in 1..Len(poseLog[c]) :
            BadIncrement(poseLog[c][k]) =>
                /\ k = Len(poseLog[c])
                /\ pc[c] = "error"
                /\ err[c] \in {"Non-finite pose increment", "Singular linear system"}
                /\ heap[trans_d[c]].val = poseLog[c][k].init_source_to_target
                /\ result[c] = NoTensor

C12_Witness ==
    \E c \in Calls :
        /\ pc[c] = "error"
        /\ err[c] = "Non-finite pose increment"
        /\ args[c].iterations = <<1, 2>>
        /\ Len(poseLog[c]) = 2
        /\ poseLog[c][1].se3 = Se3A
        /\ poseLog[c][2].se3 = Se3NonFinite
        /\ heap[trans_d[c]].val = Matmul(DeltaA, InitA)

\* C13: the k-th ComputePose call of a call, counted over all levels, is
\* given d_(k-1) * ... * d_1 * T0; the first call of a level is given what the
\* last call of the level before produced.
C13_TransformThreaded ==
    \A c \in Calls :
        LET log == poseLog[c]
            T0 == heap[hT].val
        IN  \A k \in 1..Len(log) :
               /\ log[k].init_source_to_target = Matmul(DeltaProduct(log, k - 1), T0)
               /\ k > 1 =>
                     log[k].init_source_to_target =
                         Matmul(log[k - 1].delta, log[k - 1].init_source_to_target)

C13_Witness ==
    \E c \in Calls :
        /\ pc[c] = "done"
        /\ Len(poseLog[c]) = 2
        /\ poseLog[c][1].level = 0
        /\ poseLog[c][2].level = 1
        /\ poseLog[c][1].delta = DeltaB
        /\ poseLog[c][2].init_source_to_target = Matmul(DeltaB, InitA)
        /\ poseLog[c][2].init_source_to_target # InitA

\* C14: every downsampled depth image, source and target, was made with
\* threshold 2 * depth_diff and NaN fill and has floor(rows / 2^k) by
\* floor(cols / 2^k) pixels after k downsamplings; PyrDownDepth runs k times
\* per frame before step k and n_levels - 1 times in all; every ComputePose
\* call is given depth_diff itself.
C14_DepthDownsampling ==
    \A c \in Calls :
        LET n == n_levels[c]
            a == args[c]
        IN  /\ Built(c) =>
                 /\ \A cur \in {source_depth_curr[c], target_depth_curr[c]} :
                       /\ cur.downs = IF pc[c] = "pyramid" THEN i[c]
                                      ELSE AtLeastZero(n - 1)
                       /\ \A k \in 1..cur.downs :
                             LET img == grid[<<"pyr", c, cur.frame, k>>] IN
                             /\ img.thr = 2 * a.depth_diff
                             /\ img.fill = NAN
                             /\ img.rows = a.source.depth.rows \div Pow2(k)
                             /\ img.cols = a.source.depth.cols \div Pow2(k)
                             /\ img.channels = 1
                 /\ opCount[c]["PyrDownDepth"] =
                       2 * (IF pc[c] = "pyramid" THEN i[c] ELSE AtLeastZero(n - 1))
                 /\ \A j \in 0..(n - 1) :
                       Filled(lv[c][j]) =>
                          /\ lv[c][j].source_vertex_maps.rows =
                                a.source.depth.rows \div Pow2(n - 1 - j)
                          /\ lv[c][j].source_vertex_maps.cols =
                                a.source.depth.cols \div Pow2(n - 1 - j)
            /\ \A k \in 1..Len(poseLog[c]) :
                  poseLog[c][k].depth_diff = a.depth_diff

C14_Witness ==
    \E c \in Calls :
        /\ pc[c] = "done"
        /\ args[c].method = "Intensity"
        /\ n_levels[c] = 3
        /\ args[c].target.depth.rows = MaxDim
        /\ target_depth_curr[c].rows = MaxDim \div 4
        /\ target_depth_curr[c].thr = 2 * args[c].depth_diff
        /\ opCount[c]["PyrDownDepth"] = 4
        /\ Len(poseLog[c]) > 0

KernelOf(method) ==
    IF method = "PointToPlane" THEN "ComputePosePointToPlane"
    ELSE IF method = "Intensity" THEN "ComputePoseIntensity"
    ELSE "ComputePoseHybrid"
IntensityArrays ==
    {"source_intensity", "target_intensity", "target_intensity_dx",
     "target_intensity_dy"}

\* C15: the method of a call decides what is built and which kernel runs.
\* PointToPlane never runs RGBToGray, PyrDown or FilterSobel, builds one normal
\* map per level and no intensity array (so empty color images do);
\* Intensity and Hybrid turn both color images to gray once, build the target
\* intensity gradients on every level and no normal map; every ComputePose
\* call of a call is the kernel of its method.
C15_MethodFixesMapsAndKernel ==
    \A c \in Calls :
        (Active(c) /\ args[c].method \in ValidMethods) =>
            LET n == n_levels[c]
                m == args[c].method
                cnt == opCount[c]
                built == pc[c] \in {"odometry", "done"}
            IN  /\ \A k \in 1..Len(poseLog[c]) : poseLog[c][k].kernel = KernelOf(m)
                /\ m = "PointToPlane" =>
                      /\ cnt["RGBToGray"] = 0 /\ cnt["PyrDown"] = 0
                      /\ cnt["FilterSobel"] = 0
                      /\ built =>
                            /\ cnt["CreateNormalMap"] = n
                            /\ \A j \in 0..(n - 1) :
                                  /\ lv[c][j].target_normal_maps # None
                                  /\ \A f \in IntensityArrays : lv[c][j][f] = None
                /\ m # "PointToPlane" =>
                      /\ cnt["CreateNormalMap"] = 0
                      /\ Built(c) => cnt["RGBToGray"] = 2
                      /\ built =>
                            /\ cnt["FilterSobel"] = IF m = "Hybrid" THEN 2 * n ELSE n
                            /\ \A j \in 0..(n - 1) :
                                  /\ lv[c][j].target_normal_maps = None
                                  /\ \A f \in IntensityArrays : lv[c][j][f] # None
                                  /\ lv[c][j].target_intensity_dx.of = "intensity"
                                  /\ lv[c][j].target_intensity_dy.of = "intensity"
                                  /\ (lv[c][j].target_depth_dx # None) <=> (m = "Hybrid")

C15_Witness ==
    \E c \in Calls :
        /\ pc[c] = "done"
        /\ args[c].method = "PointToPlane"
        /\ args[c].source.color.rows = 0
        /\ args[c].target.color.rows = 0
        /\ n_levels[c] = 2
        /\ opCount[c]["CreateNormalMap"] = 2
        /\ opCount[c]["RGBToGray"] = 0
        /\ Len(poseLog[c]) = 2

LevelArrays ==
    {"source_vertex_maps", "target_vertex_maps", "target_normal_maps",
     "source_depth", "target_depth", "source_intensity", "target_intensity",
     "target_intensity_dx", "target_intensity_dy", "target_depth_dx",
     "target_depth_dy"}

\* Every array of the level is of images downsampled k times, its intrinsics
\* are the caller's halved k times, and the vertex map was made with them.
LevelOfStep(level, k) ==
    /\ \A f \in LevelArrays : level[f] # None => level[f].downs = k
    /\ \A f \in LevelArrays, g \in LevelArrays :
          (level[f] # None /\ level[g] # None) =>
              /\ level[f].rows = level[g].rows
              /\ level[f].cols = level[g].cols
    /\ ScaledIntrinsics(heap[level.intrinsic_matrices].val, k)
    /\ level.source_vertex_maps.intr = heap[level.intrinsic_matrices].val

\* C17: while the pyramid is built an index is written at most once; once it
\* is built every index j was written exactly once, all of it at step
\* n_levels-1-j; a ComputePose call on level j is given the data of index j,
\* all of one resolution, with the intrinsics of that resolution.
C17_LevelDataConsistent ==
    \A c \in Calls :
        LET n == n_levels[c] IN
        /\ pc[c] = "pyramid" =>
              \A j \in 0..(n - 1) :
                 /\ lv[c][j].built = IF Filled(lv[c][j]) THEN 1 ELSE 0
                 /\ Filled(lv[c][j]) => LevelOfStep(lv[c][j], n - 1 - j)
        /\ pc[c] \in {"odometry", "done"} =>
              \A j \in 0..(n - 1) :
                 /\ lv[c][j].built = 1
                 /\ LevelOfStep(lv[c][j], n - 1 - j)
        /\ \A k \in 1..Len(poseLog[c]) :
              LET e == poseLog[c][k] IN
              /\ e.data = lv[c][e.level]
              /\ e.intrinsics = heap[e.data.intrinsic_matrices].val
              /\ LevelOfStep(e.data, n - 1 - e.level)

C17_Witness ==
    \E c \in Calls :
        /\ pc[c] = "done"
        /\ args[c].method = "Hybrid"
        /\ n_levels[c] = 3
        /\ lv[c][0].target_depth_dx.downs = 2
        /\ lv[c][0].source_intensity.downs = 2
        /\ lv[c][2].target_intensity_dy.downs = 0
        /\ heap[lv[c][1].intrinsic_matrices].val[1][1] = Dy(5, 1)
        /\ Len(poseLog[c]) = 3

\* C18: with a valid method, a schedule that is empty or has no positive
\* entry makes no ComputePose call, and the transform returned is the caller's
\* initial one in a Float64 tensor of the call's own; in any schedule a level
\* whose entry is zero or negative gets no call and every other level gets
\* its entry.
C18_NoIterationLeavesInitial ==
    \A c \in Calls :
        (Active(c) /\ args[c].method \in ValidMethods) =>
            LET it == args[c].iterations
                log == poseLog[c]
            IN  /\ SumPos(it) = 0 =>
                      /\ log = <<>>
                      /\ opCount[c]["ComputePose"] = 0
                      /\ pc[c] = "done" =>
                            /\ result[c] = Tensor("Float64", host, heap[hT].val)
                            /\ trans_d[c] \notin {hT, args[c].init_source_to_target}
                /\ pc[c] = "odometry" =>
                      \A j \in 0..(i[c] - 1) :
                         CallsOnLevel(log, j) = AtLeastZero(it[j + 1])
                /\ pc[c] = "done" =>
                      /\ \A j \in 0..(Len(it) - 1) :
                            CallsOnLevel(log, j) = AtLeastZero(it[j + 1])
                      /\ Len(log) = SumPos(it)

C18_Witness ==
    \E c \in Calls :
        /\ pc[c] = "done"
        /\ args[c].iterations = <<0, -1>>
        /\ heap[hT].dtype = "Float32"
        /\ result[c] = Tensor("Float64", host, InitA)
        /\ poseLog[c] = <<>>

\* ------------------------------------------------------ C16, C19, C20
Constructing == wpc # "none"
Lengths(config) ==
    {Len(config.voxel_size), Len(config.search_radii),
     Len(config.max_iterations), Len(config.relative_fitness),
     Len(config.relative_rmse)}

\* C16: when the configuration's five vectors are not of one length the
\* constructor ends in the fatal error with no criteria built, no file name
\* or cloud loaded, no registration run and no thread started; when they are,
\* the criteria are built one per voxel size, the k-th from the k-th fitness,
\* rmse and iteration count, and none from a read past a vector's end.
C16_LengthCheckFirst ==
    Constructing =>
        /\ Cardinality(Lengths(cfg)) > 1 =>
              /\ wpc \in {"ReadConfigFile", "error"}
              /\ criterias_ = <<>>
              /\ filenames_ = <<>>
              /\ pointclouds_device_ = <<>>
              /\ registrations = 0
              /\ upc = "idle"
        /\ \A k \in 1..Len(criterias_) :
              criterias_[k] = ICPConvergenceCriteria(At(cfg.relative_fitness, k - 1),
                                                     At(cfg.relative_rmse, k - 1),
                                                     At(cfg.max_iterations, k - 1))
        /\ \A k \in 1..Len(criterias_) :
              /\ criterias_[k].relative_fitness_ # Stale
              /\ criterias_[k].relative_rmse_ # Stale
              /\ criterias_[k].max_iteration_ # Stale
        /\ (Cardinality(Lengths(cfg)) = 1
            /\ wpc \notin {"ReadConfigFile", "criteria"}) =>
              Len(criterias_) = Len(cfg.voxel_size)

C16_Witness ==
    /\ wpc = "error"
    /\ Len(cfg.voxel_size) = 2
    /\ Len(cfg.search_radii) = 2
    /\ Len(cfg.max_iterations) = 1
    /\ Len(cfg.relative_fitness) = 2
    /\ Len(cfg.relative_rmse) = 2
    /\ cfg.registration_method = "PointToPoint"
    /\ voxel_sizes_ = cfg.voxel_size
    /\ criterias_ = <<>>

\* The cloud computed for the pair a callback was posted for.
CloudFor(posted) ==
    IF posted = -1 THEN <<"cloud", 0>> ELSE <<"transformed", posted + 1>>

\* C19 as stated: the main thread never runs a callback while the update
\* thread is writing pcd_, and every finished callback has shown, in both of
\* its uses of pcd_, the cloud of the pair it was posted for.
C19_NoRaceOnPcd ==
    /\ ~(cb # NoCallback /\ pcd_.writing)
    /\ \A k \in 1..Len(shown) :
          /\ ~shown[k].raced
          /\ shown[k].updated = CloudFor(shown[k].posted)
          /\ shown[k].added = CloudFor(shown[k].posted)

\* C20 as stated: every finished callback found the locals it captured alive
\* and, when posted in the loop for pair i, registered the cloud under
\* filenames_[i]; no callback is running or waiting once UpdateMain returned.
C20_CapturedReferencesValid ==
    /\ \A k \in 1..Len(shown) :
          /\ shown[k].alive
          /\ shown[k].posted >= 0 => shown[k].name = <<"file", shown[k].posted>>
    /\ cb # NoCallback => scope.locals
    /\ upc = "Returned" => (queue = <<>> /\ cb = NoCallback)

====
